---------------------------- MODULE Spec2Model ----------------------------
(***************************************************************************)
(* A model of the jarvis secure-envelope protocol (Protocol.py, Crypto.py) *)
(* and of the MQTT transport session and one-time request (MQTT.py).       *)
(*                                                                         *)
(* Python values are tagged tuples, the tag first:                         *)
(*   <<"None">>, <<"False">>                 None, False                   *)
(*   <<"raw", name>>                         a str that is not JSON text   *)
(*   <<"json", v>>                           the str json.dumps(v)         *)
(*   <<"bytes", s>>                          the utf-8 bytes of str s      *)
(*   <<"b64", x>>                            the base64 str of bytes x     *)
(*   <<"notb64">>                            a str base64 cannot decode    *)
(*   <<"priv", i>>, <<"pub", i>>             the PEM keys of keypair i     *)
(*   <<"junk">>                              a str that is no PEM key      *)
(*   <<"key", n>>, <<"iv", n>>               the n-th os.urandom draw      *)
(*   <<"sig", i, b>>                         rsa.sign(b) by keypair i      *)
(*   <<"rsa", i, b>>                         rsa.encrypt(b) for keypair i  *)
(*   <<"aes", key, iv, b>>                   AES-CBC of b under key, iv    *)
(*   <<"symkey", k, v>>                      the dict {"key": k, "iv": v}  *)
(*   <<"env", version, secure, data>>        the envelope dict             *)
(*   <<"sec", m, s, k>>                      the dict {"m", "s", "k"}      *)
(*   <<"frame", t, p, c>>                    the dict {"t", "p", "c"}      *)
(*   <<"dict", replyto>>                     a request dict, its reply-to  *)
(* A topic is the sequence of its '/'-separated segments.                  *)
(* The outcome of a call is [exc |-> name or "none", val |-> value].       *)
(***************************************************************************)
EXTENDS Integers, Sequences, FiniteSets, TLC

VARIABLES
    \* Protocol.py: two Protocol instances, the envelope in flight, the last call
    protos, envl, outcome,
    \* os.urandom: the number of draws made so far
    entropy,
    \* MQTT.py: the MQTT instances; whether the broker accepts connections;
    \* what was published to the broker; MQTT._responses
    mqtt, brokerUp, wire, responses,
    \* the last run of the inbound handler of the session "srv", forgotten
    \* once the session is changed
    recv,
    \* the onetime calls in progress and the dicts passed as message
    ot, msgobj,
    \* API.py: API.routes, and the last call of API.execute or MQTT.match
    routes, apicall

protoVars == <<protos, envl, outcome, entropy>>
mqttVars == <<mqtt, brokerUp, wire, responses, recv>>
otVars == <<ot, msgobj>>
apiVars == <<routes, apicall>>
vars == <<protos, envl, outcome, entropy, mqtt, brokerUp, wire, responses,
          recv, ot, msgobj, routes, apicall>>

---------------------------------------------------------------------------
(* Bounds *)

\* os.urandom draws a run may make
MaxRand == 4

---------------------------------------------------------------------------
(* Python values *)

PyNone == <<"None">>
PyFalse == <<"False">>

Ok(v) == [exc |-> "none", val |-> v]
Raise(e) == [exc |-> e, val |-> PyNone]

IsStr(x) == x[1] \in {"raw", "json", "b64", "notb64"}

json_dumps(v) == <<"json", v>>

\* json.loads: the value of a JSON text, JSONDecodeError for any other str
json_loads(s) ==
    IF s[1] = "json" THEN Ok(s[2]) ELSE Raise("JSONDecodeError")

_str_to_bytes(string) ==
    IF IsStr(string) THEN Ok(<<"bytes", string>>) ELSE Raise("TypeError")

_bytes_to_str(byte_like_obj) ==
    IF IsStr(byte_like_obj) THEN byte_like_obj ELSE byte_like_obj[2]

b64e(bytes) == <<"b64", bytes>>

\* base64.b64decode: binascii.Error when what is left of the str after the
\* characters outside the alphabet are dropped is not padded base64
b64d(bytes) ==
    IF bytes[1] = "b64" THEN Ok(bytes[2]) ELSE Raise("binascii.Error")

---------------------------------------------------------------------------
(* Crypto.py *)

Identities == {"A", "B", "C"}
PrivKey(i) == <<"priv", i>>
PubKey(i) == <<"pub", i>>
Junk == <<"junk">>

\* rsa.PrivateKey.load_pkcs1 / rsa.PublicKey.load_pkcs1 accept a PEM key of
\* their kind and raise on anything else
IsPrivKey(k) == k[1] = "priv"
IsPubKey(k) == k[1] = "pub"

Crypto_sign(message, private_key) ==
    IF IsPrivKey(private_key)
    THEN Ok(<<"sig", private_key[2], message>>)
    ELSE Raise("ValueError")

Crypto_verify(message, signature, public_key) ==
    IF ~IsPubKey(public_key)
    THEN Raise("ValueError")
    ELSE Ok(signature = <<"sig", public_key[2], message>>)

Crypto_encrypt(message, public_key) ==
    IF IsPubKey(public_key)
    THEN Ok(<<"rsa", public_key[2], message>>)
    ELSE Raise("ValueError")

Crypto_decrypt(encrypted, private_key) ==
    IF ~IsPrivKey(private_key)
    THEN Raise("ValueError")
    ELSE IF encrypted[1] = "rsa" /\ encrypted[2] = private_key[2]
    THEN Ok(encrypted[3])
    ELSE Raise("DecryptionError")

\* the n-th pair of os.urandom draws
Crypto_symmetric(n) == <<(<<"key", n>>), (<<"iv", n>>)>>

Crypto_aes_encrypt(message, key, iv) == <<"aes", key, iv, message>>

Crypto_aes_decrypt(encrypted, key, iv) ==
    IF encrypted[1] = "aes" /\ encrypted[2] = key /\ encrypted[3] = iv
    THEN Ok(encrypted[4])
    ELSE Raise("ValueError")

---------------------------------------------------------------------------
(* Protocol.py *)

VERSION == 1

\* rpub.startswith(PUBKEY_START_SEQ): a PEM public key, or any other str
\* that begins with the marker
StartsWithPubkeySeq(k) == k[1] \in {"pub", "pubjunk"}

rotate_aes(self, n) ==
    [self EXCEPT !.key = Crypto_symmetric(n)[1], !.iv = Crypto_symmetric(n)[2]]

\* a constructor for which any remote public key makes the instance secure
Protocol_init_secure_if_present(local_private_key, local_public_key, remote_public_key, auto_rotate, n) ==
    rotate_aes(
        [priv |-> local_private_key, pub |-> local_public_key,
         rpub |-> remote_public_key, key |-> PyNone, iv |-> PyNone,
         rotate |-> auto_rotate,
         secure |-> remote_public_key # PyNone], n)

\* Protocol(local_private_key, local_public_key, remote_public_key,
\* auto_rotate=...); no aes_key is given, so the n-th draw is taken
Protocol_init(local_private_key, local_public_key, remote_public_key, auto_rotate, n) ==
    rotate_aes(
        [priv |-> local_private_key, pub |-> local_public_key,
         rpub |-> remote_public_key, key |-> PyNone, iv |-> PyNone,
         rotate |-> auto_rotate,
         secure |-> (remote_public_key # PyNone
                     /\ StartsWithPubkeySeq(remote_public_key))], n)

\* The envelope dict of a secure message, or the exception raised on the way
SecureData(self, message, is_json) ==
    LET text == IF is_json THEN json_dumps(message) ELSE message
        bytes == _str_to_bytes(text)
        signature == Crypto_sign(bytes.val, self.priv)
        encrypted == Crypto_aes_encrypt(bytes.val, self.key, self.iv)
        symmetric_key == json_dumps(<<"symkey", b64e(self.key), b64e(self.iv)>>)
        encrypted_symmetric_key ==
            Crypto_encrypt(_str_to_bytes(symmetric_key).val, self.rpub)
    IN  IF bytes.exc # "none" THEN bytes
        ELSE IF signature.exc # "none" THEN signature
        ELSE IF encrypted_symmetric_key.exc # "none" THEN encrypted_symmetric_key
        ELSE Ok(<<"sec", b64e(encrypted), b64e(signature.val),
                  b64e(encrypted_symmetric_key.val)>>)

\* an encrypt that goes on with the key and iv it has
Protocol_encrypt_keep_key(self, message, is_json, n) ==
    LET data == IF self.secure
                THEN SecureData(self, message, is_json)
                ELSE Ok(message)
    IN  IF data.exc # "none"
        THEN [exc |-> data.exc, val |-> PyNone, self |-> self]
        ELSE [exc |-> "none",
              val |-> json_dumps(<<"env", <<"v", VERSION>>, self.secure, data.val>>),
              self |-> self]

\* an encrypt that serializes the message of an envelope in the clear
Protocol_encrypt_dumps_data(self, message, is_json, n) ==
    LET rotated == IF self.rotate THEN rotate_aes(self, n) ELSE self
        data == IF rotated.secure
                THEN SecureData(rotated, message, is_json)
                ELSE Ok(json_dumps(message))
    IN  IF data.exc # "none"
        THEN [exc |-> data.exc, val |-> PyNone, self |-> rotated]
        ELSE [exc |-> "none",
              val |-> json_dumps(<<"env", <<"v", VERSION>>, rotated.secure, data.val>>),
              self |-> rotated]

\* an encrypt that draws a new key and iv whatever `rotate` says
Protocol_encrypt_always_rotate(self, message, is_json, n) ==
    LET rotated == rotate_aes(self, n)
        data == IF rotated.secure
                THEN SecureData(rotated, message, is_json)
                ELSE Ok(message)
    IN  IF data.exc # "none"
        THEN [exc |-> data.exc, val |-> PyNone, self |-> rotated]
        ELSE [exc |-> "none",
              val |-> json_dumps(<<"env", <<"v", VERSION>>, rotated.secure, data.val>>),
              self |-> rotated]

\* Protocol.encrypt: [exc, val, self], self being the instance afterwards
\* (the rotation happens before anything can raise)
Protocol_encrypt(self, message, is_json, n) ==
    LET rotated == IF self.rotate THEN rotate_aes(self, n) ELSE self
        data == IF rotated.secure
                THEN SecureData(rotated, message, is_json)
                ELSE Ok(message)
    IN  IF data.exc # "none"
        THEN [exc |-> data.exc, val |-> PyNone, self |-> rotated]
        ELSE [exc |-> "none",
              val |-> json_dumps(<<"env", <<"v", VERSION>>, rotated.secure, data.val>>),
              self |-> rotated]

\* DecryptSecure reading the body with the instance's own symmetric key
\* and iv instead of the pair unwrapped from the envelope
DecryptSecure_own_key(self, data, ignore_invalid_signature, return_raw) ==
    LET m == b64d(data[4][2])
        s == b64d(data[4][3])
        k == b64d(data[4][4])
        unwrapped == Crypto_decrypt(k.val, self.priv)
        decrypted_message == Crypto_aes_decrypt(m.val, self.key, self.iv)
        verified == IF self.rpub # PyNone
                    THEN Crypto_verify(decrypted_message.val, s.val, self.rpub)
                    ELSE Ok(FALSE)
    IN  IF m.exc # "none" THEN m
        ELSE IF s.exc # "none" THEN s
        ELSE IF k.exc # "none" THEN k
        ELSE IF unwrapped.exc # "none" THEN Raise("OwnMessage")
        ELSE IF decrypted_message.exc # "none" THEN decrypted_message
        ELSE IF verified.exc # "none" THEN verified
        ELSE IF ~verified.val /\ ~ignore_invalid_signature
        THEN Raise("SignatureMismatch")
        ELSE IF return_raw
        THEN Ok(<<"env", data[2], data[3], _bytes_to_str(decrypted_message.val)>>)
        ELSE Ok(_bytes_to_str(decrypted_message.val))

\* the branch of Protocol.decrypt for a secure envelope of version 1
DecryptSecure(self, data, ignore_invalid_signature, return_raw) ==
    LET m == b64d(data[4][2])
        s == b64d(data[4][3])
        k == b64d(data[4][4])
        unwrapped == Crypto_decrypt(k.val, self.priv)
        symkey == IF unwrapped.exc # "none" THEN unwrapped
                  ELSE json_loads(_bytes_to_str(unwrapped.val))
        key == b64d(symkey.val[2])
        iv == b64d(symkey.val[3])
        decrypted_message == Crypto_aes_decrypt(m.val, key.val, iv.val)
        verified == IF self.rpub # PyNone
                    THEN Crypto_verify(decrypted_message.val, s.val, self.rpub)
                    ELSE Ok(FALSE)
    IN  IF m.exc # "none" THEN m
        ELSE IF s.exc # "none" THEN s
        ELSE IF k.exc # "none" THEN k
        ELSE IF symkey.exc # "none" THEN Raise("OwnMessage")
        ELSE IF key.exc # "none" THEN key
        ELSE IF iv.exc # "none" THEN iv
        ELSE IF decrypted_message.exc # "none" THEN decrypted_message
        ELSE IF verified.exc # "none" THEN verified
        ELSE IF ~verified.val /\ ~ignore_invalid_signature
        THEN Raise("SignatureMismatch")
        ELSE IF return_raw
        THEN Ok(<<"env", data[2], data[3], _bytes_to_str(decrypted_message.val)>>)
        ELSE Ok(_bytes_to_str(decrypted_message.val))

Protocol_decrypt(self, data, ignore_invalid_signature, return_raw) ==
    LET parsed == json_loads(data)
        d == parsed.val
    IN  IF parsed.exc # "none" THEN parsed
        ELSE IF d[1] # "env" THEN Raise("TypeError")
        ELSE IF d[2] = <<"absent">> THEN Ok(PyNone)
        ELSE IF d[2] # <<"v", 1>> THEN Ok(PyNone)
        ELSE IF d[3]
        THEN DecryptSecure(self, d, ignore_invalid_signature, return_raw)
        ELSE IF return_raw THEN Ok(d) ELSE Ok(json_dumps(d[4]))

\* check_signature that accepts whatever decrypts
check_signature_unchecked(self, payload) ==
    LET resp == Protocol_decrypt(self, payload, TRUE, TRUE)
    IN  IF resp.exc = "none" THEN Ok(TRUE) ELSE resp

check_signature(self, payload) ==
    LET resp == Protocol_decrypt(self, payload, FALSE, TRUE)
    IN  IF resp.exc = "none" THEN Ok(TRUE)
        ELSE IF resp.exc = "SignatureMismatch" THEN Ok(FALSE)
        ELSE resp

---------------------------------------------------------------------------
(* MQTT.py: the session *)

TMP_PREFIX == <<"jrvs", "tmp">>
ENCRYPTED_CHANNEL == <<"jarvis", "encrypted">>
INVALID_SIGNATURE_ALLOWED == <<"jarvis", "client", "+", "set", "public-key">>

\* topic.startswith("$"), which the matcher asks of the topic's first segment
StartsWithDollar(topic) == topic[1] \in {"$SYS"}

\* MQTTMatcher.iter_match for the one subscription stored: i segments of
\* both are consumed; a literal or "+" child consumes one more, a "#" child
\* that ends the subscription matches whatever is left, nothing included
RECURSIVE MatchFrom(_, _, _)
MatchFrom(subscription, topic, i) ==
    LET normal == ~StartsWithDollar(topic)
        hasChild == i < Len(subscription)
        child == subscription[i + 1]
    IN  \/ /\ i = Len(topic)
           /\ i = Len(subscription)
        \/ /\ i < Len(topic)
           /\ hasChild
           /\ \/ child = topic[i + 1]
              \/ child = "+" /\ (normal \/ i > 0)
           /\ MatchFrom(subscription, topic, i + 1)
        \/ /\ hasChild
           /\ child = "#"
           /\ normal \/ i > 0
           /\ i + 1 = Len(subscription)

\* a matcher whose "#" needs a segment to take
MQTT_match_one_or_more(subscription, topic) ==
    /\ MatchFrom(subscription, topic, 0)
    /\ subscription[Len(subscription)] = "#" => Len(topic) >= Len(subscription)

MQTT_match(subscription, topic) == MatchFrom(subscription, topic, 0)

\* topic.startswith(TMP_PREFIX): "jrvs/tmp/" and then anything
StartsWithTmpPrefix(topic) ==
    Len(topic) > Len(TMP_PREFIX) /\ SubSeq(topic, 1, Len(TMP_PREFIX)) = TMP_PREFIX

NoSession ==
    [exists |-> FALSE, priv |-> PyNone, pub |-> PyNone, rpub |-> PyNone,
     cid |-> "none", cb |-> "None", subscriptions |-> <<>>,
     proto |-> Protocol_init(PyNone, PyNone, PyNone, TRUE, 0),
     connected |-> FALSE, brokerSubs |-> {}, looping |-> FALSE]

\* MQTT(client_id, private_key, public_key, remote_public_key): `up` is
\* whether client.connect succeeds; a refusal is logged and swallowed
MQTT_init(client_id, private_key, public_key, remote_public_key, up, n) ==
    [exists |-> TRUE, priv |-> private_key, pub |-> public_key,
     rpub |-> remote_public_key, cid |-> client_id, cb |-> "None",
     subscriptions |-> <<>>,
     proto |-> Protocol_init(private_key, public_key, remote_public_key, TRUE, n),
     connected |-> up,
     brokerSubs |-> IF up THEN {ENCRYPTED_CHANNEL} ELSE {},
     looping |-> FALSE]

MQTT_on_message(self, fn) == [self EXCEPT !.looping = TRUE, !.cb = fn]

\* a subscribe that also subscribes at the broker
MQTT_subscribe_at_broker(self, topic) ==
    [self EXCEPT !.subscriptions = Append(@, topic),
                 !.brokerSubs = @ \cup {topic}]

MQTT_subscribe(self, topic) ==
    [self EXCEPT !.subscriptions = Append(@, topic)]

MQTT_disconnect(self) == [self EXCEPT !.connected = FALSE]

\* an update that stores the key and goes on with the Protocol it has
MQTT_update_public_key_keep_proto(self, public_key, n) ==
    [self EXCEPT !.rpub = public_key]

MQTT_update_public_key(self, public_key, n) ==
    [self EXCEPT !.rpub = public_key,
                 !.proto = Protocol_init(self.priv, self.pub, public_key, TRUE, n)]

\* a publish that hands the logical topic to client.publish
MQTT_publish_on_topic(self, topic, payload, n) ==
    LET data == <<"frame", topic, payload, self.cid>>
        encrypted_payload == Protocol_encrypt(self.proto, data, TRUE, n)
    IN  [exc |-> encrypted_payload.exc,
         self |-> [self EXCEPT !.proto = encrypted_payload.self],
         out |-> <<topic, encrypted_payload.val>>]

\* MQTT.publish: [exc, self, out], out being the (topic, payload) handed to
\* client.publish
MQTT_publish(self, topic, payload, n) ==
    LET data == <<"frame", topic, payload, self.cid>>
        encrypted_topic == ENCRYPTED_CHANNEL
        encrypted_payload == Protocol_encrypt(self.proto, data, TRUE, n)
    IN  [exc |-> encrypted_payload.exc,
         self |-> [self EXCEPT !.proto = encrypted_payload.self],
         out |-> <<encrypted_topic, encrypted_payload.val>>]

\* lines 138-143 and 154-156 of MQTT._mqtt_cb: the decrypted str is parsed
\* and must be a dict with "t", "p" and "c"; whatever raises on the way is
\* caught and printed and leaves `payload` the str it was, so that
\* payload["t"] raises TypeError
ParsedFrame(loaded) ==
    IF loaded.exc # "none" THEN Raise("TypeError")
    ELSE IF loaded.val[1] # "frame" THEN Raise("TypeError")
    ELSE Ok(loaded.val)

\* lines 136-153 of MQTT._mqtt_cb, given what Protocol.decrypt did: only
\* UnauthorizedException returns, every other exception is caught and printed
FrameOf(decrypted) ==
    IF decrypted.exc = "DecryptionError" THEN Raise("return")
    ELSE IF decrypted.exc # "none" THEN Raise("TypeError")
    ELSE IF decrypted.val = PyNone THEN Raise("TypeError")
    ELSE ParsedFrame(json_loads(decrypted.val))

InboundFrame(self, payload) ==
    FrameOf(Protocol_decrypt(self.proto, payload, TRUE, FALSE))

\* a dispatch that invokes the callback once for each subscription that
\* matches
Dispatch_each_subscription(self, frame, valid_signature) ==
    IF valid_signature.exc # "none"
    THEN [exc |-> valid_signature.exc, calls |-> <<>>]
    ELSE IF ~valid_signature.val \/ self.cb = "None"
    THEN [exc |-> "none", calls |-> <<>>]
    ELSE [exc |-> "none",
          calls |-> [k \in 1..Cardinality({j \in 1..Len(self.subscriptions) :
                                   MQTT_match(self.subscriptions[j], frame[2])})
                       |-> <<frame[2], frame[3], frame[4]>>]]

\* lines 159-169 of MQTT._mqtt_cb: the Frame is dropped on a signature
\* mismatch, else handed to the callback when a subscription matches
Dispatch(self, frame, valid_signature) ==
    IF valid_signature.exc # "none"
    THEN [exc |-> valid_signature.exc, calls |-> <<>>]
    ELSE IF ~valid_signature.val
    THEN [exc |-> "none", calls |-> <<>>]
    ELSE IF /\ \E k \in 1..Len(self.subscriptions) :
                  MQTT_match(self.subscriptions[k], frame[2])
            /\ self.cb # "None"
    THEN [exc |-> "none", calls |-> <<(<<frame[2], frame[3], frame[4]>>)>>]
    ELSE [exc |-> "none", calls |-> <<>>]

\* lines 154-169 of MQTT._mqtt_cb: the signature is checked strictly unless
\* the topic matches INVALID_SIGNATURE_ALLOWED
CheckAndDispatch(self, payload, frame) ==
    IF frame.exc = "return" THEN [exc |-> "none", calls |-> <<>>]
    ELSE IF frame.exc # "none" THEN [exc |-> frame.exc, calls |-> <<>>]
    ELSE Dispatch(self, frame.val,
                  IF ~MQTT_match(INVALID_SIGNATURE_ALLOWED, frame.val[2])
                  THEN check_signature(self.proto, payload)
                  ELSE Ok(TRUE))

\* MQTT._mqtt_cb: [exc, calls], calls being the argument tuples the
\* registered callback was invoked with
MQTT_mqtt_cb(self, payload) ==
    CheckAndDispatch(self, payload, InboundFrame(self, payload))

\* MQTT._on_msg applied to MQTT._responses
MQTT_on_msg(resp, topic, payload) ==
    IF StartsWithTmpPrefix(topic)
    THEN [t \in DOMAIN resp \cup {topic} |->
            IF t = topic THEN payload ELSE resp[t]]
    ELSE resp

---------------------------------------------------------------------------
(* API.py. A topic or pattern is the sequence of its segments; the str that *)
(* Python holds is the sequence of the characters of the segments, joined   *)
(* by "/", and `re` works on that.                                          *)

PyTrue == <<"True">>

\* the characters of each segment used
Chars ==
    [s \in {"a", "b", "ab", "b c", "$SYS", "+", "#"} |->
        CASE s = "a" -> <<"a">>
          [] s = "b" -> <<"b">>
          [] s = "ab" -> <<"a", "b">>
          [] s = "b c" -> <<"b", " ", "c">>
          [] s = "$SYS" -> <<"$", "S", "Y", "S">>
          [] s = "+" -> <<"+">>
          [] s = "#" -> <<"#">>]

\* "/".join(segments): the str of a topic
RECURSIVE Str(_)
Str(topic) ==
    IF Len(topic) = 0 THEN <<>>
    ELSE IF Len(topic) = 1 THEN Chars[topic[1]]
    ELSE Chars[topic[1]] \o <<"/">> \o Str(Tail(topic))

\* line 62: subscription.replace("+", "([^/]+)").replace("#", "([^ ]+)"),
\* compiled: a group of one or more characters other than the one named, or
\* a literal character
Regex(subscription) ==
    [k \in 1..Len(subscription) |->
        IF subscription[k] = "+" THEN <<"group", "/">>
        ELSE IF subscription[k] = "#" THEN <<"group", " ">>
        ELSE <<"lit", subscription[k]>>]

\* the number of characters of s from position j on that a group excluding
\* character x can take
RECURSIVE Run(_, _, _)
Run(s, j, x) ==
    IF j > Len(s) \/ s[j] = x THEN 0 ELSE 1 + Run(s, j + 1, x)

\* the regex engine: reg from item i against s from position j; a group is
\* greedy and gives characters back until the rest matches. <<matched,
\* groups>>; the match need not reach the end of s
RECURSIVE ReMatch(_, _, _, _)
ReMatch(reg, s, i, j) ==
    IF i > Len(reg) THEN <<TRUE, <<>>>>
    ELSE IF reg[i][1] = "lit"
    THEN IF j <= Len(s) /\ s[j] = reg[i][2]
         THEN ReMatch(reg, s, i + 1, j + 1)
         ELSE <<FALSE, <<>>>>
    ELSE LET good == {k \in 1..Run(s, j, reg[i][2]) :
                         ReMatch(reg, s, i + 1, j + k)[1]}
         IN  IF good = {} THEN <<FALSE, <<>>>>
             ELSE LET k == CHOOSE x \in good : \A y \in good : y <= x
                  IN  <<TRUE, <<SubSeq(s, j, j + k - 1)>>
                                \o ReMatch(reg, s, i + 1, j + k)[2]>>

\* re.match(reg, s): a match that starts at the first character
re_match(reg, s) == ReMatch(reg, s, 1, 1)

\* re.search(reg, s): the match at the first position that has one
re_search(reg, s) ==
    LET starts == {j \in 1..(Len(s) + 1) : ReMatch(reg, s, 1, j)[1]}
    IN  IF starts = {} THEN <<FALSE, <<>>>>
        ELSE ReMatch(reg, s, 1, CHOOSE j \in starts : \A y \in starts : j <= y)

\* the handler that _get falls back to
default_route == <<"default_route">>

\* API._get over the routes from the k-th on, in the order of registration;
\* a registered handler is named by the pattern it was registered under
RECURSIVE GetFrom(_, _, _)
GetFrom(rts, route, k) ==
    IF k > Len(rts)
    THEN [fn |-> default_route, args |-> <<>>]
    ELSE IF re_match(Regex(Str(rts[k])), Str(route))[1]
    THEN [fn |-> rts[k], args |-> re_search(Regex(Str(rts[k])), Str(route))[2]]
    ELSE GetFrom(rts, route, k + 1)

API_get(rts, route) == GetFrom(rts, route, 1)

\* API.route(path)(func): the dict keeps the place of a path it already has
API_route(rts, path) ==
    IF \E k \in 1..Len(rts) : rts[k] = path THEN rts ELSE Append(rts, path)

\* what a handler does when called: the value it returns, or the message of
\* the Exception it raises
Behaviours ==
    {<<"return", PyTrue>>, <<"return", PyFalse>>, <<"return", PyNone>>,
     <<"return", <<"raw", "pong">>>>, <<"raise", <<"raw", "This is a test">>>>}

\* line 85: the call of the resolved handler; default_route raises
CallHandler(fn, behaviour) ==
    IF fn = default_route
    THEN [exc |-> "Exception", val |-> <<"raw", "Endpoint not found">>]
    ELSE IF behaviour[1] = "raise"
    THEN [exc |-> "Exception", val |-> behaviour[2]]
    ELSE Ok(behaviour[2])

\* isinstance(res, bool)
IsBool(res) == res \in {PyTrue, PyFalse}

\* the pair of an execute that does not look for a boolean
ResultPair_any_value(res) ==
    IF res.exc # "none" THEN <<"tuple", PyFalse, res.val>>
    ELSE <<"tuple", PyTrue, res.val>>

\* lines 87-93: the pair returned for what the handler did
ResultPair(res) ==
    IF res.exc # "none" THEN <<"tuple", PyFalse, res.val>>
    ELSE IF IsBool(res.val) THEN <<"tuple", res.val, PyNone>>
    ELSE <<"tuple", PyTrue, res.val>>

\* API.execute(route): what it returns and the handler call it made
Executed(endpoint, behaviour) ==
    [result |-> ResultPair(CallHandler(endpoint.fn, behaviour)),
     calls |-> <<endpoint>>]

API_execute(rts, route, behaviour) == Executed(API_get(rts, route), behaviour)

NoApiCall == [op |-> "none", pattern |-> <<>>, route |-> <<>>,
              behaviour |-> <<"return", PyNone>>, res |-> PyNone,
              calls |-> <<>>]

\* no route, no call
IdleApi == routes = <<>> /\ apicall = NoApiCall

---------------------------------------------------------------------------
(* The sessions and calls of a run *)

\* the onetime calls of a run; each has its ephemeral session of that name
Calls == {"c1", "c2"}
Sessions == {"srv"} \cup Calls

\* the dicts a caller may pass as message
Objs == {"o1", "o2"}

NoRecv == [text |-> PyNone, exc |-> "none", calls |-> <<>>]

NoCall ==
    [pc |-> "idle", priv |-> PyNone, rpub |-> PyNone, timeout |-> 0,
     obj |-> "o1", otc |-> PyNone, elapsed |-> 0, response |-> PyNone,
     result |-> PyNone, exc |-> "none"]

---------------------------------------------------------------------------
(* The envelope protocol on its own: two Protocol instances, "p" and "q",   *)
(* built from every choice of keys, and one envelope in flight that either  *)
(* of them produced and that the transport may alter before it is read.     *)

Insts == {"p", "q"}

\* what a caller may pass as remote_public_key
RemoteKeys == {PyNone, Junk} \cup {PubKey(i) : i \in {"A", "B"}}

\* the messages handed to encrypt: a str and a dict
Messages == {<<"raw", "hello">>, <<"dict", PyNone>>}

\* the keypair each instance is built with: "p" is A's, "q" is B's or C's
Owners == {o \in [Insts -> Identities] : o["p"] = "A" /\ o["q"] # "A"}

NoEnvl == [text |-> PyNone, by |-> "none", msg |-> PyNone, is_json |-> FALSE,
           altered |-> FALSE, exc |-> "none"]

NoOutcome == [op |-> "none", inst |-> "none", ignore |-> FALSE, raw |-> FALSE,
              res |-> Ok(PyNone)]

\* no session, no call, nothing published
IdleMqtt ==
    /\ mqtt = [s \in Sessions |-> NoSession]
    /\ brokerUp = TRUE
    /\ wire = {}
    /\ responses = <<>>
    /\ recv = NoRecv
    /\ ot = [c \in Calls |-> NoCall]
    /\ msgobj = [o \in Objs |-> <<"dict", PyNone>>]

ProtoInit ==
    /\ \E o \in Owners, r \in [Insts -> RemoteKeys],
          a \in [Insts -> BOOLEAN] :
          protos = [i \in Insts |->
                      Protocol_init(PrivKey(o[i]), PubKey(o[i]), r[i], a[i],
                                    IF i = "p" THEN 1 ELSE 2)]
    /\ entropy = 2
    /\ envl = NoEnvl
    /\ outcome = NoOutcome
    /\ IdleMqtt
    /\ IdleApi

\* Protocol.rotate_aes, called by the owner of instance i
Rotate(i) ==
    /\ entropy < MaxRand
    /\ entropy' = entropy + 1
    /\ protos' = [protos EXCEPT ![i] = rotate_aes(@, entropy + 1)]
    /\ UNCHANGED <<apiVars, envl, mqttVars, otVars>>
    /\ outcome' = NoOutcome

\* Protocol.encrypt(message, is_json) on instance i; the envelope is sent
Encrypt(i, message, is_json) ==
    /\ entropy < MaxRand
    /\ LET r == Protocol_encrypt(protos[i], message, is_json, entropy + 1)
       IN  /\ protos' = [protos EXCEPT ![i] = r.self]
           /\ entropy' = IF protos[i].rotate THEN entropy + 1 ELSE entropy
           /\ envl' = [text |-> r.val, by |-> i, msg |-> message,
                       is_json |-> is_json, altered |-> FALSE, exc |-> r.exc]
    /\ outcome' = NoOutcome
    /\ UNCHANGED <<apiVars, mqttVars, otVars>>

\* the signature fields the transport may put in place of the sender's: a
\* signature by another keypair, one over another message, and a field
\* with a character changed to one outside the base64 alphabet
AlteredSignatures(sec) ==
    LET sig == sec[3][2]
    IN  {b64e(<<"sig", j, sig[3]>>) : j \in Identities \ {sig[2]}}
        \cup {b64e(<<"sig", sig[2], <<"bytes", <<"raw", "other">>>>>>)}
        \cup {<<"notb64">>}

\* the envelope in flight with its signature field replaced
Tamper ==
    /\ envl.exc = "none" /\ envl.by # "none"
    /\ envl.text[2][3]
    /\ ~envl.altered
    /\ \E s \in AlteredSignatures(envl.text[2][4]) :
          LET d == envl.text[2]
          IN  envl' = [envl EXCEPT
                         !.text = json_dumps(<<"env", d[2], d[3],
                                               <<"sec", d[4][2], s, d[4][4]>>>>),
                         !.altered = TRUE]
    /\ outcome' = NoOutcome
    /\ UNCHANGED <<apiVars, protos, entropy, mqttVars, otVars>>

\* the envelope in flight reaches its reader as a dict with "secure" and
\* "data" and no "version" key
Unversioned ==
    /\ envl.exc = "none" /\ envl.by # "none"
    /\ ~envl.altered
    /\ envl' = [envl EXCEPT
                   !.text = json_dumps(<<"env", <<"absent">>, envl.text[2][3],
                                         envl.text[2][4]>>),
                   !.altered = TRUE]
    /\ outcome' = NoOutcome
    /\ UNCHANGED <<apiVars, protos, entropy, mqttVars, otVars>>

\* Protocol.decrypt on instance i of the envelope in flight
Decrypt(i, ignore_invalid_signature, return_raw) ==
    /\ envl.exc = "none" /\ envl.by # "none"
    /\ outcome' = [op |-> "decrypt", inst |-> i,
                   ignore |-> ignore_invalid_signature, raw |-> return_raw,
                   res |-> Protocol_decrypt(protos[i], envl.text,
                                            ignore_invalid_signature, return_raw)]
    /\ UNCHANGED <<apiVars, protos, envl, entropy, mqttVars, otVars>>

\* Protocol.check_signature on instance i of the envelope in flight
CheckSignature(i) ==
    /\ envl.exc = "none" /\ envl.by # "none"
    /\ outcome' = [op |-> "check_signature", inst |-> i, ignore |-> FALSE,
                   raw |-> TRUE,
                   res |-> LET r == check_signature(protos[i], envl.text)
                           IN  IF r.exc = "none"
                               THEN Ok(IF r.val THEN <<"True">> ELSE PyFalse)
                               ELSE r]
    /\ UNCHANGED <<apiVars, protos, envl, entropy, mqttVars, otVars>>

\* Crypto.verify of the message and signature of the secure envelope in
\* flight under the remote public key that instance i was given
Verify(i) ==
    /\ envl.exc = "none" /\ envl.by # "none"
    /\ envl.text[2][3]
    /\ protos[i].rpub # PyNone
    /\ b64d(envl.text[2][4][3]).exc = "none"
    /\ outcome' = [op |-> "verify", inst |-> i, ignore |-> FALSE,
                   raw |-> FALSE,
                   res |-> LET r == Crypto_verify(
                                        <<"bytes", IF envl.is_json
                                                   THEN json_dumps(envl.msg)
                                                   ELSE envl.msg>>,
                                        b64d(envl.text[2][4][3]).val,
                                        protos[i].rpub)
                           IN  IF r.exc = "none"
                               THEN Ok(IF r.val THEN <<"True">> ELSE PyFalse)
                               ELSE r]
    /\ UNCHANGED <<apiVars, protos, envl, entropy, mqttVars, otVars>>

ProtoNext ==
    \/ \E i \in Insts : Verify(i)
    \/ \E i \in Insts : Rotate(i)
    \/ \E i \in Insts, m \in Messages, j \in BOOLEAN : Encrypt(i, m, j)
    \/ Tamper
    \/ Unversioned
    \/ \E i \in Insts, g \in BOOLEAN, r \in BOOLEAN : Decrypt(i, g, r)
    \/ \E i \in Insts : CheckSignature(i)

ProtoSpec == ProtoInit /\ [][ProtoNext]_vars

---------------------------------------------------------------------------
(* What the other peers put on the shared channel *)

\* one reply topic for every call
OtcOf_shared(c) == TMP_PREFIX \o <<"c1">>

\* line 183: TMP_PREFIX and 64 random hex digits, which no two calls share
OtcOf(c) == TMP_PREFIX \o <<c>>
ReplyFor(c) == <<"raw", c>>

AppTopic == <<"app", "ping">>
KeyTopic == <<"jarvis", "client", "B", "set", "public-key">>

\* the Frames of the peers: the reply to each call on its reply topic, a
\* request, and a public-key announcement
PeerFrames ==
    {<<"frame", OtcOf(c), ReplyFor(c), "B">> : c \in Calls}
    \cup {<<"frame", AppTopic, <<"raw", "ping">>, "B">>,
          <<"frame", KeyTopic, <<"raw", "pk">>, "B">>}

\* the envelope of a peer that holds keypair `signer` and `recipient` as
\* its remote public key (None: it sends in the clear)
PeerEnvelope(signer, recipient, frame) ==
    Protocol_encrypt(
        Protocol_init(PrivKey(signer), PubKey(signer), recipient, TRUE, 0),
        frame, TRUE, 0).val

\* a secure envelope whose signature field lost a character on the way and
\* is no longer base64
Mangled(text) ==
    json_dumps(<<"env", text[2][2], text[2][3],
                 <<"sec", text[2][4][2], <<"notb64">>, text[2][4][4]>>>>)

\* B writing to A, C writing to A, B writing to itself, B in the clear, and
\* B's public-key announcement to A with its signature field mangled
PeerTraffic ==
    {PeerEnvelope(p[1], p[2], f) :
        p \in {<<"B", PubKey("A")>>, <<"C", PubKey("A")>>,
               <<"B", PubKey("B")>>, <<"B", PyNone>>},
        f \in PeerFrames}
    \cup {Mangled(PeerEnvelope("B", PubKey("A"),
                               <<"frame", KeyTopic, <<"raw", "pk">>, "B">>))}

\* what the broker may hand to a subscriber of the ciphertext channel
Inbound ==
    PeerTraffic \cup {w[2] : w \in {x \in wire : x[1] = ENCRYPTED_CHANNEL}}

\* MQTT._responses after the callback of a session ran: _on_msg stores,
\* the application's callback does not touch it
ResponsesAfter(self, ran) ==
    IF self.cb = "_on_msg" /\ Len(ran.calls) > 0
    THEN MQTT_on_msg(responses, ran.calls[1][1], ran.calls[1][2])
    ELSE responses

RecvAfter(text, ran) == [text |-> text, exc |-> ran.exc, calls |-> ran.calls]

\* the on_message hook of the network loop of session s runs on one message
Receive(s, text) ==
    /\ mqtt[s].exists /\ mqtt[s].connected /\ mqtt[s].looping
    /\ text \in Inbound
    /\ responses' = ResponsesAfter(mqtt[s], MQTT_mqtt_cb(mqtt[s], text))
    /\ recv' = IF s = "srv"
               THEN RecvAfter(text, MQTT_mqtt_cb(mqtt[s], text))
               ELSE recv
    /\ UNCHANGED <<apiVars, mqtt, brokerUp, wire, protoVars, otVars>>

---------------------------------------------------------------------------
(* One long-lived session, "srv", of peer A with an application callback *)

\* subscribe calls and os.urandom draws of the session
MaxSubs == 2
MaxDraws == 3

SrvRemoteKeys == {PyNone, Junk, PubKey("B")}
Patterns == {<<"#">>, <<"app", "+">>, INVALID_SIGNATURE_ALLOWED}

SessionInit ==
    /\ brokerUp \in BOOLEAN
    /\ \E k \in SrvRemoteKeys :
          mqtt = [s \in Sessions |->
                    IF s = "srv"
                    THEN MQTT_init("A", PrivKey("A"), PubKey("A"), k, brokerUp, 1)
                    ELSE NoSession]
    /\ wire = {}
    /\ responses = <<>>
    /\ recv = NoRecv
    /\ ot = [c \in Calls |-> NoCall]
    /\ msgobj = [o \in Objs |-> <<"dict", PyNone>>]
    /\ protos = [i \in Insts |-> NoSession.proto]
    /\ entropy = 0
    /\ envl = NoEnvl
    /\ outcome = NoOutcome
    /\ IdleApi

\* on_message(fn): fn is the application's callback, or None
SrvOnMessage(fn) ==
    /\ mqtt' = [mqtt EXCEPT !["srv"] = MQTT_on_message(@, fn)]
    /\ recv' = NoRecv
    /\ UNCHANGED <<apiVars, brokerUp, wire, responses, protoVars, otVars>>

SrvSubscribe(pattern) ==
    /\ Len(mqtt["srv"].subscriptions) < MaxSubs
    /\ mqtt' = [mqtt EXCEPT !["srv"] = MQTT_subscribe(@, pattern)]
    /\ recv' = NoRecv
    /\ UNCHANGED <<apiVars, brokerUp, wire, responses, protoVars, otVars>>

SrvPublish(topic, payload) ==
    /\ mqtt["srv"].proto.key[2] < MaxDraws
    /\ LET r == MQTT_publish(mqtt["srv"], topic, payload,
                             mqtt["srv"].proto.key[2] + 1)
       IN  /\ mqtt' = [mqtt EXCEPT !["srv"] = r.self]
           /\ wire' = IF r.exc = "none" /\ mqtt["srv"].connected
                      THEN wire \cup {r.out} ELSE wire
    /\ recv' = NoRecv
    /\ UNCHANGED <<apiVars, brokerUp, responses, protoVars, otVars>>

\* what update_public_key is called with
UpdateKeys == {PyNone, Junk, PubKey("B"), PubKey("C")}

SrvUpdatePublicKey(public_key) ==
    /\ mqtt["srv"].proto.key[2] < MaxDraws
    /\ mqtt' = [mqtt EXCEPT !["srv"] =
                  MQTT_update_public_key(@, public_key, @.proto.key[2] + 1)]
    /\ recv' = NoRecv
    /\ UNCHANGED <<apiVars, brokerUp, wire, responses, protoVars, otVars>>

SrvDisconnect ==
    /\ mqtt["srv"].connected
    /\ mqtt' = [mqtt EXCEPT !["srv"] = MQTT_disconnect(@)]
    /\ recv' = NoRecv
    /\ UNCHANGED <<apiVars, brokerUp, wire, responses, protoVars, otVars>>

SessionNext ==
    \/ \E fn \in {"app", "None"} : SrvOnMessage(fn)
    \/ \E pattern \in Patterns : SrvSubscribe(pattern)
    \/ SrvPublish(AppTopic, <<"raw", "ping">>)
    \/ \E k \in UpdateKeys : SrvUpdatePublicKey(k)
    \/ SrvDisconnect
    \/ \E text \in Inbound : Receive("srv", text)

SessionSpec == SessionInit /\ [][SessionNext]_vars

---------------------------------------------------------------------------
(* MQTT.onetime: each call c runs on a thread of its own, its ephemeral     *)
(* session mqtt[c] on its network loop; a call is cut where it reads or     *)
(* writes what other threads share (the message dict, the broker,           *)
(* MQTT._responses).                                                        *)

\* (private_key, remote_public_key) of a call: both good, a private key
\* that is no PEM text, no remote public key
KeyConfigs ==
    {<<PrivKey("A"), PubKey("B")>>, <<Junk, PubKey("B")>>, <<PrivKey("A"), PyNone>>}

\* the timeout of a call, in ticks
Timeouts == {0, 1}

\* the first os.urandom draw of the session of a call
DrawBase(c) == IF c = "c1" THEN 10 ELSE 20

OnetimeInit ==
    /\ brokerUp \in BOOLEAN
    /\ mqtt = [s \in Sessions |-> NoSession]
    /\ wire = {}
    /\ responses = <<>>
    /\ recv = NoRecv
    /\ ot = [c \in Calls |-> NoCall]
    /\ msgobj = [o \in Objs |-> <<"dict", PyNone>>]
    /\ protos = [i \in Insts |-> NoSession.proto]
    /\ entropy = 0
    /\ envl = NoEnvl
    /\ outcome = NoOutcome
    /\ IdleApi

\* lines 182-184: the call is made; with a timeout, the reply topic is drawn
\* and written into the caller's dict. (The dicts are interchangeable: the
\* first call is given "o1", the second the same dict or the other.)
OtStart(c, keys, timeout, o) ==
    /\ ot[c].pc = "idle"
    /\ c = "c1" => o = "o1"
    /\ ot' = [ot EXCEPT ![c] =
                [@ EXCEPT !.pc = "open", !.priv = keys[1], !.rpub = keys[2],
                          !.timeout = timeout, !.obj = o,
                          !.otc = IF timeout # 0 THEN OtcOf(c) ELSE PyNone]]
    /\ msgobj' = IF timeout # 0
                 THEN [msgobj EXCEPT ![o] = <<"dict", OtcOf(c)>>]
                 ELSE msgobj
    /\ UNCHANGED <<apiVars, mqttVars, protoVars>>

\* lines 185-187: the session is built, its loop started, "#" subscribed
OtOpen(c) ==
    /\ ot[c].pc = "open"
    /\ mqtt' = [mqtt EXCEPT ![c] =
                  MQTT_subscribe(
                      MQTT_on_message(
                          MQTT_init("A", ot[c].priv, PubKey("A"), ot[c].rpub,
                                    brokerUp, DrawBase(c)),
                          "_on_msg"),
                      <<"#">>)]
    /\ ot' = [ot EXCEPT ![c].pc = "publish"]
    /\ UNCHANGED <<apiVars, brokerUp, wire, responses, recv, msgobj, protoVars>>

\* a call that waits for a reply whatever its timeout
Published_always_wait(call, r) ==
    IF r.exc # "none"
    THEN [call EXCEPT !.pc = "raised", !.exc = r.exc]
    ELSE [call EXCEPT !.pc = "loop", !.elapsed = 0]

\* the call after mqtt.publish returned or raised
Published(call, r) ==
    IF r.exc # "none"
    THEN [call EXCEPT !.pc = "raised", !.exc = r.exc]
    ELSE [call EXCEPT !.pc = IF call.timeout = 0 THEN "forget" ELSE "loop",
                      !.elapsed = 0]

\* mqtt.publish ran with outcome r: the envelope reaches the broker if the
\* session is connected
PublishStep(c, r) ==
    /\ mqtt' = [mqtt EXCEPT ![c] = r.self]
    /\ wire' = IF r.exc = "none" /\ mqtt[c].connected
               THEN wire \cup {r.out} ELSE wire
    /\ ot' = [ot EXCEPT ![c] = Published(@, r)]

\* lines 188 and 192: the dict is serialized as it is now and published; an
\* exception leaves onetime through `raise e`; the clock is read
OtPublish(c) ==
    /\ ot[c].pc = "publish"
    /\ PublishStep(c, MQTT_publish(mqtt[c], AppTopic,
                                   json_dumps(msgobj[ot[c].obj]),
                                   mqtt[c].proto.key[2] + 1))
    /\ UNCHANGED <<apiVars, brokerUp, responses, recv, msgobj, protoVars>>

\* lines 189-191: with timeout 0 the session is disconnected and None returned
OtForget(c) ==
    /\ ot[c].pc = "forget"
    /\ mqtt' = [mqtt EXCEPT ![c] = MQTT_disconnect(@)]
    /\ ot' = [ot EXCEPT ![c].pc = "done", ![c].result = PyNone]
    /\ UNCHANGED <<apiVars, brokerUp, wire, responses, recv, msgobj, protoVars>>

\* line 193: the loop condition, otc not in MQTT._responses
OtLoop(c) ==
    /\ ot[c].pc = "loop"
    /\ ot' = [ot EXCEPT ![c].pc =
                IF ot[c].otc \in DOMAIN responses THEN "read" ELSE "sleep"]
    /\ UNCHANGED <<apiVars, mqttVars, msgobj, protoVars>>

\* the sleep of a loop that never looks at the clock
OtSleep_no_timeout(c) ==
    /\ ot[c].pc = "sleep"
    /\ ot' = [ot EXCEPT ![c].pc = "loop"]
    /\ UNCHANGED <<apiVars, mqttVars, msgobj, protoVars>>

\* lines 194-196: after the sleep, False is stored if the timeout has passed
OtSleep(c) ==
    /\ ot[c].pc = "sleep"
    /\ responses' =
          IF ot[c].elapsed > ot[c].timeout
          THEN [t \in DOMAIN responses \cup {ot[c].otc} |->
                  IF t = ot[c].otc THEN PyFalse ELSE responses[t]]
          ELSE responses
    /\ ot' = [ot EXCEPT ![c].pc = "loop"]
    /\ UNCHANGED <<apiVars, mqtt, brokerUp, wire, recv, msgobj, protoVars>>

\* line 197: response = MQTT._responses[otc]
OtRead(c) ==
    /\ ot[c].pc = "read"
    /\ ot' = [ot EXCEPT ![c] =
                IF ot[c].otc \in DOMAIN responses
                THEN [@ EXCEPT !.pc = "del", !.response = responses[ot[c].otc]]
                ELSE [@ EXCEPT !.pc = "raised", !.exc = "KeyError"]]
    /\ UNCHANGED <<apiVars, mqttVars, msgobj, protoVars>>

\* line 198: del MQTT._responses[otc]
OtDel(c) ==
    /\ ot[c].pc = "del"
    /\ responses' = [t \in DOMAIN responses \ {ot[c].otc} |-> responses[t]]
    /\ ot' = [ot EXCEPT ![c] =
                IF ot[c].otc \in DOMAIN responses
                THEN [@ EXCEPT !.pc = "disc"]
                ELSE [@ EXCEPT !.pc = "raised", !.exc = "KeyError"]]
    /\ UNCHANGED <<apiVars, mqtt, brokerUp, wire, recv, msgobj, protoVars>>

\* lines 199-201: the session is disconnected and the response returned
OtReturn(c) ==
    /\ ot[c].pc = "disc"
    /\ mqtt' = [mqtt EXCEPT ![c] = MQTT_disconnect(@)]
    /\ ot' = [ot EXCEPT ![c].pc = "done", ![c].result = ot[c].response]
    /\ UNCHANGED <<apiVars, brokerUp, wire, responses, recv, msgobj, protoVars>>

\* a call inside the loop of lines 193-196, where time.time() is compared
\* with start + timeout
Waiting(c) == ot[c].pc \in {"loop", "sleep"}

\* time passes: time.time() - start grows for every call in its loop (the
\* count stops once start + timeout < time.time())
Tick ==
    /\ \E c \in Calls : Waiting(c) /\ ot[c].elapsed <= ot[c].timeout
    /\ ot' = [c \in Calls |->
                IF Waiting(c) /\ ot[c].elapsed <= ot[c].timeout
                THEN [ot[c] EXCEPT !.elapsed = @ + 1]
                ELSE ot[c]]
    /\ UNCHANGED <<apiVars, mqttVars, msgobj, protoVars>>

\* the steps of the thread that runs call c
OtAdvance(c) ==
    \/ OtOpen(c)
    \/ OtPublish(c)
    \/ OtForget(c)
    \/ OtLoop(c)
    \/ OtSleep(c)
    \/ OtRead(c)
    \/ OtDel(c)
    \/ OtReturn(c)

OnetimeNext ==
    \/ \E c \in Calls, keys \in KeyConfigs, timeout \in Timeouts, o \in Objs :
          OtStart(c, keys, timeout, o)
    \/ \E c \in Calls : OtOpen(c)
    \/ \E c \in Calls : OtPublish(c)
    \/ \E c \in Calls : OtForget(c)
    \/ \E c \in Calls : OtLoop(c)
    \/ \E c \in Calls : OtSleep(c)
    \/ \E c \in Calls : OtRead(c)
    \/ \E c \in Calls : OtDel(c)
    \/ \E c \in Calls : OtReturn(c)
    \/ Tick
    \/ \E c \in Calls, text \in Inbound : Receive(c, text)

OnetimeSpec == OnetimeInit /\ [][OnetimeNext]_vars

\* every thread that can run does run, and time passes
OnetimeFairSpec ==
    /\ OnetimeSpec
    /\ WF_vars(Tick)
    /\ \A c \in Calls : WF_vars(OtAdvance(c))

---------------------------------------------------------------------------
(* The route dispatcher: handlers are registered under patterns, topics are *)
(* executed, and the topic matcher is asked about a pattern and a topic.    *)

\* the routes a run may register
MaxRoutes == 2

\* the patterns registered
ApiPatterns ==
    {<<"a">>, <<"a", "b">>, <<"+">>, <<"#">>, <<"a", "+">>, <<"a", "#">>,
     <<"+", "b">>, <<"a", "+", "b">>, <<"a", "+", "#">>}

\* the topics executed
ApiTopics ==
    {<<"a">>, <<"ab">>, <<"b">>, <<"a", "b">>, <<"a", "ab">>, <<"a", "b c">>,
     <<"b", "b">>, <<"a", "b", "b">>, <<"a", "ab", "b">>, <<"a", "b c", "b">>,
     <<"$SYS">>, <<"$SYS", "b">>}

ApiInit ==
    /\ IdleApi
    /\ IdleMqtt
    /\ protos = [i \in Insts |-> NoSession.proto]
    /\ entropy = 0
    /\ envl = NoEnvl
    /\ outcome = NoOutcome

\* @API.route(path) on a handler
Route(path) ==
    /\ Len(routes) < MaxRoutes
    /\ routes' = API_route(routes, path)
    /\ apicall' = NoApiCall
    /\ UNCHANGED <<protoVars, mqttVars, otVars>>

\* API.execute(route), the handler reached doing what `behaviour` says. A
\* call leaves API.routes as it found it, so one call is looked at for each
\* state of the registry
Execute(route, behaviour) ==
    /\ apicall = NoApiCall
    /\ LET r == API_execute(routes, route, behaviour)
       IN  apicall' = [op |-> "execute", pattern |-> <<>>, route |-> route,
                       behaviour |-> behaviour, res |-> r.result,
                       calls |-> r.calls]
    /\ UNCHANGED <<routes, protoVars, mqttVars, otVars>>

\* MQTT.match(subscription, topic)
Match(subscription, topic) ==
    /\ apicall = NoApiCall
    /\ apicall' = [op |-> "match", pattern |-> subscription, route |-> topic,
                   behaviour |-> <<"return", PyNone>>,
                   res |-> IF MQTT_match(subscription, topic)
                           THEN PyTrue ELSE PyFalse,
                   calls |-> <<>>]
    /\ UNCHANGED <<routes, protoVars, mqttVars, otVars>>

ApiNext ==
    \/ \E path \in ApiPatterns : Route(path)
    \/ \E route \in ApiTopics, b \in Behaviours : Execute(route, b)
    \/ \E sub \in ApiPatterns, topic \in ApiTopics : Match(sub, topic)

ApiSpec == ApiInit /\ [][ApiNext]_vars

---------------------------------------------------------------------------
(* Claims about the envelope protocol, checked under ProtoSpec *)

\* what encrypt serialized: json.dumps(message), or the str itself
SerializedMsg == IF envl.is_json THEN json_dumps(envl.msg) ELSE envl.msg

\* the envelope in flight is a secure one as its sender produced it
SecureInFlight == envl.exc = "none" /\ envl.by # "none" /\ envl.text[2][3]

\* the last call was decrypt, by an instance holding keypair b and a's
\* public key, of the unaltered envelope of an instance holding keypair a
\* and b's public key
PairedDecrypt ==
    /\ outcome.op = "decrypt"
    /\ ~envl.altered
    /\ \E a, b \in Identities :
          /\ protos[envl.by].priv = PrivKey(a)
          /\ protos[envl.by].rpub = PubKey(b)
          /\ protos[outcome.inst].priv = PrivKey(b)
          /\ protos[outcome.inst].rpub = PubKey(a)

\* C1: an envelope that an instance with A's keypair and B's public key
\* encrypted is decrypted, with ignore_invalid_signature=false, by an
\* instance with B's keypair and A's public key to exactly the serialized
\* message, without raising, whatever rotations either instance made.
C1_RoundTrip ==
    (PairedDecrypt /\ ~outcome.ignore /\ ~outcome.raw)
        => outcome.res = Ok(SerializedMsg)

\* C1's case: "q" has read a dict that "p" sent after p's key was rotated
C1_Witness ==
    /\ PairedDecrypt /\ ~outcome.ignore /\ ~outcome.raw
    /\ envl.by = "p" /\ outcome.inst = "q"
    /\ protos["p"].key[2] > 2
    /\ envl.msg = <<"dict", PyNone>>
    /\ outcome.res = Ok(json_dumps(<<"dict", PyNone>>))

\* C2: decrypting a secure envelope encrypted for keypair b with an
\* instance that holds another keypair c fails with UnauthorizedException
\* (rsa.pkcs1.DecryptionError) and with nothing else.
C2_WrongRecipientUnauthorized ==
    (/\ outcome.op = "decrypt"
     /\ SecureInFlight
     /\ ~envl.altered
     /\ \E b, c \in Identities :
           /\ b # c
           /\ protos[envl.by].rpub = PubKey(b)
           /\ protos[outcome.inst].priv = PrivKey(c))
        => outcome.res.exc = "DecryptionError"

\* the receiver of the last decrypt, and whether the envelope in flight is
\* wrapped for its keypair
Receiver == protos[outcome.inst]
AddressedToReceiver ==
    /\ SecureInFlight
    /\ protos[envl.by].rpub = PubKey(Receiver.priv[2])

\* the signature field is not the base64 of the signature that the
\* receiver's remote public key verifies over the message
SignatureFails ==
    \/ Receiver.rpub = PyNone
    \/ /\ IsPubKey(Receiver.rpub)
       /\ envl.text[2][4][3] #
            b64e(<<"sig", Receiver.rpub[2], <<"bytes", SerializedMsg>>>>)

\* C3: a secure envelope addressed to the receiver whose signature field
\* does not verify against the receiver's remote public key (an altered
\* signature, or no remote public key) makes decrypt fail with
\* SignatureMismatch when ignore_invalid_signature is false, and is
\* returned decrypted when it is true.
C3_TamperDetected ==
    (outcome.op = "decrypt" /\ AddressedToReceiver /\ SignatureFails)
        => IF outcome.ignore
           THEN outcome.res =
                  Ok(IF outcome.raw
                     THEN <<"env", <<"v", VERSION>>, TRUE, SerializedMsg>>
                     ELSE SerializedMsg)
           ELSE outcome.res = Raise("SignatureMismatch")

\* the envelope in flight is a secure one that instance i produced and
\* nobody altered
SecureFrom(e, i) ==
    e.by = i /\ e.exc = "none" /\ ~e.altered /\ e.text[2][3]

\* the "k" field of a secure envelope, and the field that wraps the key and
\* iv of an instance for its remote key
WrappedKey(e) == e.text[2][4][4]
WrapOf(self) ==
    b64e(<<"rsa", self.rpub[2],
           <<"bytes", json_dumps(<<"symkey", b64e(self.key), b64e(self.iv)>>)>>>>)

\* C17: on an instance with rotation enabled every encrypt call draws a new
\* key and iv before it encrypts: they are none of the draws made before,
\* the envelope wraps them, and two consecutive secure envelopes of the
\* instance carry different wrapped keys.
C17_RotateBeforeEncrypt ==
    [][\A i \in Insts, m \in Messages, j \in BOOLEAN :
          (Encrypt(i, m, j) /\ protos[i].rotate) =>
              /\ protos'[i].key[2] > entropy
              /\ protos'[i].iv[2] > entropy
              /\ SecureFrom(envl', i) => WrappedKey(envl') = WrapOf(protos'[i])
              /\ (SecureFrom(envl, i) /\ SecureFrom(envl', i))
                    => WrappedKey(envl') # WrappedKey(envl)]_vars

\* C17's case: "p" rotates and has sent the same str twice, the second time
\* under the last draw
C17_Witness ==
    /\ protos["p"].rotate
    /\ SecureFrom(envl, "p")
    /\ envl.msg = <<"raw", "hello">>
    /\ protos["p"].key = <<"key", MaxRand>>
    /\ WrappedKey(envl) = WrapOf(protos["p"])

\* the envelope in flight is as instance i produced it
SentBy(i) == envl.by = i /\ envl.exc = "none" /\ ~envl.altered

\* C18: an instance built with no remote public key has secure = false;
\* its encrypt does not raise, and every envelope it produces has
\* secure = false and the input message itself as data.
C18_InsecureMode ==
    \A i \in Insts :
        protos[i].rpub = PyNone =>
            /\ ~protos[i].secure
            /\ envl.by = i => envl.exc = "none"
            /\ SentBy(i) =>
                  envl.text =
                    json_dumps(<<"env", <<"v", VERSION>>, FALSE, envl.msg>>)

\* C18's case: "q", built without remote key, was asked to encrypt a dict
C18_Witness ==
    /\ protos["q"].rpub = PyNone
    /\ SentBy("q")
    /\ envl.is_json
    /\ envl.text[2] = <<"env", <<"v", VERSION>>, FALSE, <<"dict", PyNone>>>>

\* the remote key of the instance is there and begins with the marker
HasMarkedKey(self) == self.rpub # PyNone /\ StartsWithPubkeySeq(self.rpub)

\* the data of the envelope in flight has the shape that goes with `secure`:
\* {m, s, k}, or the message itself
ShapeOf(secure) ==
    IF secure
    THEN envl.text[2][4][1] = "sec" /\ Len(envl.text[2][4]) = 4
    ELSE envl.text[2][4] = envl.msg

\* C19: the secure flag of an instance is true iff its remote public key is
\* present and starts with the marker, and no call changes it; every
\* envelope the instance produces has secure equal to the flag and the data
\* shape that goes with it.
C19_EnvelopeShape ==
    /\ [](\A i \in Insts :
             /\ protos[i].secure <=> HasMarkedKey(protos[i])
             /\ SentBy(i) => /\ envl.text[2][3] = protos[i].secure
                             /\ ShapeOf(protos[i].secure))
    /\ [][\A i \in Insts : protos'[i].secure = protos[i].secure]_vars

\* C19's case: an instance whose remote key is a str without the marker has
\* sent an envelope in the clear, after "p" sent secure ones
C19_Witness ==
    /\ protos["q"].rpub = Junk
    /\ ~protos["q"].secure
    /\ protos["p"].secure
    /\ SentBy("q")
    /\ ShapeOf(FALSE)

\* C20: Crypto.verify never raises: for a public key str that cannot be
\* parsed too it returns a boolean, and False when the signature is not the
\* key's over the message.
C20_VerifyTotal ==
    outcome.op = "verify" =>
        /\ outcome.res.exc = "none"
        /\ outcome.res.val \in {<<"True">>, PyFalse}
        /\ ~IsPubKey(protos[outcome.inst].rpub) => outcome.res.val = PyFalse

\* C25: decrypt of an envelope that carries no version tag fails with an
\* UnknownProtocol error; it returns no value.
C25_UnknownProtocol ==
    (outcome.op = "decrypt" /\ envl.text[2][2] = <<"absent">>)
        => outcome.res.exc = "UnknownProtocol"

\* the key and iv under which the body of a secure envelope was encrypted
BodyKey(e) == <<e.text[2][4][2][2][2], e.text[2][4][2][2][3]>>

\* C33: on an instance built with rotation disabled no step but the
\* owner's own call of rotate_aes changes the key or the iv (encrypt,
\* decrypt and check_signature leave them as they are), and every secure
\* envelope the instance produces is encrypted under, and wraps, the pair
\* the instance had before the call: the pair of its construction, unless
\* the owner called rotate_aes in between.
C33_NoRotation ==
    [][\A i \in Insts :
         ~protos[i].rotate =>
             /\ ~protos'[i].rotate
             /\ ~Rotate(i) => /\ protos'[i].key = protos[i].key
                              /\ protos'[i].iv = protos[i].iv
             /\ (envl' # envl /\ SecureFrom(envl', i))
                    => /\ BodyKey(envl') = <<protos[i].key, protos[i].iv>>
                       /\ WrappedKey(envl') = WrapOf(protos[i])]_vars

\* C33's case: "p", built without rotation, has sent a secure envelope
\* under the pair of its construction after the other instance drew new
\* ones, and has then read an envelope
C33_Witness ==
    /\ ~protos["p"].rotate
    /\ protos["p"].key = <<"key", 1>> /\ protos["p"].iv = <<"iv", 1>>
    /\ entropy > 2
    /\ SecureFrom(envl, "p")
    /\ BodyKey(envl) = <<(<<"key", 1>>), (<<"iv", 1>>)>>
    /\ WrappedKey(envl) = WrapOf(protos["p"])
    /\ outcome.op = "decrypt" /\ outcome.inst = "p"

\* C31: an instance without remote key that decrypts, with
\* return_raw=false, the envelope it produced itself for message m (a str
\* or a dict) returns m, the value encrypt placed in the data field,
\* unchanged.
C31_InsecureRoundTrip ==
    (/\ outcome.op = "decrypt"
     /\ ~outcome.raw
     /\ outcome.inst = envl.by
     /\ SentBy(envl.by)
     /\ ~protos[envl.by].secure)
        => outcome.res = Ok(envl.msg)

\* what a full decrypt with ignore_invalid_signature=false does with the
\* envelope in flight on the instance of the last call
StrictDecrypt == Protocol_decrypt(protos[outcome.inst], envl.text, FALSE, TRUE)

\* C21: check_signature never raises; it returns False exactly when the
\* full decrypt with ignore_invalid_signature=false fails with
\* SignatureMismatch, and True for every other outcome of that decrypt, a
\* failure to unwrap the key with this keypair included.
C21_CheckSignatureTotal ==
    outcome.op = "check_signature" =>
        outcome.res = Ok(IF StrictDecrypt.exc = "SignatureMismatch"
                         THEN PyFalse ELSE PyTrue)

---------------------------------------------------------------------------
(* Claims about the inbound handler, checked under SessionSpec *)

\* the parts of a secure envelope str: the dict {"m", "s", "k"}, the
\* bytes that were encrypted and signed, the Frame they spell
IsSecureText(text) == text[1] = "json" /\ text[2][1] = "env" /\ text[2][3]
SecOf(text) == text[2][4]
SignedBytes(text) == SecOf(text)[2][2][4]
FrameIn(text) == SignedBytes(text)[2][2]

\* the signature field is the signature of keypair i over the signed bytes
SignedBy(text, i) == SecOf(text)[3] = b64e(<<"sig", i, SignedBytes(text)>>)

\* the signature of the envelope verifies against remote public key rpub
Verifies(text, rpub) == IsPubKey(rpub) /\ SignedBy(text, rpub[2])

\* the wrapped key of the envelope was encrypted for keypair i
WrappedFor(text, i) == SecOf(text)[4][2][2] = i

Srv == mqtt["srv"]
Received == recv.text # PyNone

\* C4: the inbound handler never invokes the registered callback for a
\* secure Frame whose logical topic does not match the signature-exemption
\* pattern and whose signature does not verify against the session's
\* remote public key.
C4_StrictSignature ==
    (/\ Received
     /\ IsSecureText(recv.text)
     /\ ~MQTT_match(INVALID_SIGNATURE_ALLOWED, FrameIn(recv.text)[2])
     /\ ~Verifies(recv.text, Srv.rpub))
        => recv.calls = <<>>

\* C4's case: a Frame for A that C signed reaches the session, which knows
\* B's key, has a callback and subscribes to "#"; it is dropped at the
\* signature check
C4_Witness ==
    /\ recv.text = PeerEnvelope("C", PubKey("A"),
                                <<"frame", AppTopic, <<"raw", "ping">>, "B">>)
    /\ Srv.rpub = PubKey("B")
    /\ Srv.cb = "app"
    /\ \E k \in 1..Len(Srv.subscriptions) : Srv.subscriptions[k] = <<"#">>
    /\ recv.exc = "none"
    /\ recv.calls = <<>>

\* C10: an envelope the session cannot unwrap with its private key (one
\* addressed to another peer, or the echo of its own publish) is discarded
\* silently: the handler returns without raising and without invoking the
\* callback.
C10_InboundFaultsLocal ==
    (/\ Received
     /\ IsSecureText(recv.text)
     /\ ~WrappedFor(recv.text, Srv.priv[2]))
        => recv.exc = "none" /\ recv.calls = <<>>

\* the Frame an envelope str carries: in the ciphertext of a secure one, as
\* the data of one in the clear
CarriedFrame(text) ==
    IF IsSecureText(text) THEN FrameIn(text) ELSE text[2][4]

\* C16: whatever the session handed to the broker was published on the one
\* ciphertext channel, and carries the logical topic, the payload and the
\* session's id inside the envelope, as the Frame {t, p, c}.
C16_OneChannel ==
    \A w \in wire :
        /\ w[1] = ENCRYPTED_CHANNEL
        /\ CarriedFrame(w[2])[1] = "frame"
        /\ CarriedFrame(w[2])[4] = Srv.cid

\* C16's case: the session that knows B's key published app/ping; the
\* broker got it on the channel, the topic inside the ciphertext
C16_Witness ==
    /\ Srv.rpub = PubKey("B")
    /\ \E w \in wire :
          /\ w[1] = ENCRYPTED_CHANNEL
          /\ IsSecureText(w[2])
          /\ CarriedFrame(w[2]) = <<"frame", AppTopic, <<"raw", "ping">>, "A">>

\* the logical topic of the Frame an envelope str carries, and whether the
\* signature-exemption pattern matches it
TopicOf(text) == CarriedFrame(text)[2]
Exempt(text) == MQTT_match(INVALID_SIGNATURE_ALLOWED, TopicOf(text))

\* C26: a session that holds a remote public key never invokes its callback
\* for a Frame that arrived in an envelope with secure = false, which
\* carries no signature, unless the Frame's topic matches the
\* signature-exemption pattern.
C26_NoDowngrade ==
    (/\ Received
     /\ IsPubKey(Srv.rpub)
     /\ ~IsSecureText(recv.text)
     /\ ~Exempt(recv.text))
        => recv.calls = <<>>

\* the envelope passes decryption and the signature policy of the session:
\* in the clear there is nothing to unwrap or verify; a secure one is
\* wrapped for the session's keypair, its signature field is base64, and
\* the signature verifies against the remote public key or the topic is
\* exempt (the remote key, if there is one, being a key that can be loaded)
Passes(text) ==
    IsSecureText(text) =>
        /\ WrappedFor(text, Srv.priv[2])
        /\ SecOf(text)[3][1] = "b64"
        /\ \/ Verifies(text, Srv.rpub)
           \/ Exempt(text) /\ (Srv.rpub = PyNone \/ IsPubKey(Srv.rpub))

\* some local subscription matches the topic
LocalMatch(topic) ==
    \E k \in 1..Len(Srv.subscriptions) : MQTT_match(Srv.subscriptions[k], topic)

\* the Frame of an envelope str as the callback's arguments
CallOf(text) ==
    <<CarriedFrame(text)[2], CarriedFrame(text)[3], CarriedFrame(text)[4]>>

C30_SignatureExemption ==
    (/\ Received
     /\ IsSecureText(recv.text)
     /\ WrappedFor(recv.text, Srv.priv[2]))
        => IF Exempt(recv.text)
           THEN (LocalMatch(TopicOf(recv.text)) /\ Srv.cb # "None")
                    => recv.calls = <<CallOf(recv.text)>>
           ELSE ~Verifies(recv.text, Srv.rpub) => recv.calls = <<>>

\* the envelope str is what a Protocol instance built for remote key k
\* produces: in the clear unless k begins with the marker, else secure
\* with the symmetric key wrapped for k
ProducedFor(text, k) ==
    IF k # PyNone /\ StartsWithPubkeySeq(k)
    THEN IsSecureText(text) /\ WrappedFor(text, k[2])
    ELSE ~IsSecureText(text)

\* C23: update_public_key(k) leaves the session with remote key k and a
\* Protocol instance built anew for k; whatever the session publishes is
\* produced for the remote key it has at that moment, never for an earlier
\* one, and a signed Frame on a topic that is not exempt reaches the
\* callback only if its signature verifies against that key.
C23_RebuiltForKey ==
    /\ [](/\ Srv.proto.rpub = Srv.rpub
          /\ Srv.proto.secure <=> HasMarkedKey(Srv)
          /\ (/\ Received
              /\ IsSecureText(recv.text)
              /\ ~Exempt(recv.text)
              /\ recv.calls # <<>>) => Verifies(recv.text, Srv.rpub))
    /\ [][/\ \A k \in UpdateKeys :
               SrvUpdatePublicKey(k) =>
                   /\ mqtt'["srv"].rpub = k
                   /\ mqtt'["srv"].proto.key[2] > Srv.proto.key[2]
          /\ \A w \in wire' \ wire : ProducedFor(w[2], Srv.rpub)]_vars

\* C23's case: the session, built with B's key or none, was updated to C's
\* key; it has published an envelope wrapped for C and has handed a
\* request that C signed to its callback
C23_Witness ==
    /\ Srv.rpub = PubKey("C")
    /\ \E w \in wire : IsSecureText(w[2]) /\ WrappedFor(w[2], "C")
    /\ recv.text = PeerEnvelope("C", PubKey("A"),
                                <<"frame", AppTopic, <<"raw", "ping">>, "B">>)
    /\ recv.calls # <<>>

\* C32: subscribe(pattern) appends the pattern to the session's local list
\* and changes nothing else of the session; it subscribes to nothing at the
\* broker, so after any sequence of subscribe calls the session's
\* broker-level subscriptions are what construction left: the ciphertext
\* channel alone (and nothing if the broker refused the connection).
C32_SubscribeIsLocal ==
    /\ [](Srv.brokerSubs \subseteq {ENCRYPTED_CHANNEL})
    /\ [][\A pattern \in Patterns :
             SrvSubscribe(pattern) =>
                 /\ mqtt'["srv"].subscriptions = Append(Srv.subscriptions, pattern)
                 /\ mqtt'["srv"].brokerSubs = Srv.brokerSubs
                 /\ mqtt'["srv"] = [Srv EXCEPT !.subscriptions =
                                                 mqtt'["srv"].subscriptions]
                 /\ wire' = wire]_vars

\* C32's case: a connected session after two subscribe calls, the broker
\* knowing of the ciphertext channel only
C32_Witness ==
    /\ Srv.connected
    /\ Srv.subscriptions = <<(<<"app", "+">>), (<<"#">>)>>
    /\ Srv.brokerSubs = {ENCRYPTED_CHANNEL}

---------------------------------------------------------------------------
(* Claims about onetime, checked under OnetimeSpec and OnetimeFairSpec *)

Returned(c) == ot[c].pc = "done"
Left(c) == ot[c].pc \in {"done", "raised"}
Stored(c) == ot[c].otc \in DOMAIN responses

\* C5: every ephemeral session that onetime opens is disconnected by the
\* time onetime exits, on every exit path, an exception raised after the
\* session was opened included.
C5_SessionClosedOnExit ==
    \A c \in Calls : Left(c) => ~mqtt[c].connected

\* C6: once the inbound callback has stored a reply for a pending reply
\* topic, no step overwrites it with the timeout sentinel.
C6_NoLostUpdate ==
    [][\A c \in Calls :
         (ot[c].timeout # 0 /\ Stored(c) /\ responses[ot[c].otc] # PyFalse)
            => (ot[c].otc \in DOMAIN responses'
                  => responses'[ot[c].otc] # PyFalse)]_vars

\* C7: for two concurrent onetime calls, what each reads and returns is the
\* failure sentinel or the payload of a Frame on its own reply topic, never
\* the reply published on the other call's topic.
C7_NoCrossDelivery ==
    \A c \in Calls :
        /\ ot[c].pc \in {"del", "disc"}
              => ot[c].response \in {PyFalse, ReplyFor(c)}
        /\ (Returned(c) /\ ot[c].timeout # 0)
              => ot[c].result \in {PyFalse, ReplyFor(c)}

\* C7's case: both calls are in flight and were answered; one has returned
\* its reply, the other holds its own and is about to
C7_Witness ==
    /\ Returned("c1") /\ ot["c1"].result = ReplyFor("c1")
    /\ ot["c2"].pc = "disc" /\ ot["c2"].response = ReplyFor("c2")
    /\ ot["c1"].obj = ot["c2"].obj

\* a reply is in the registry under the reply topic of call c
ReplyStored(c) == Stored(c) /\ responses[ot[c].otc] # PyFalse

\* the call has a timeout and has reached its wait (line 192), or is at its
\* start with a private key that publish can sign with
WillWait(c) ==
    /\ ot[c].timeout # 0
    /\ \/ ot[c].pc = "loop"
       \/ ot[c].pc = "open" /\ IsPrivKey(ot[c].priv)

C9_TicketRemoved ==
    [][\A c \in Calls :
         (ot[c].pc = "disc" /\ ot'[c].pc = "done")
            => ot[c].otc \notin DOMAIN responses']_vars

\* call c was made with timeout = 0
Forgetful(c) == ot[c].pc # "idle" /\ ot[c].timeout = 0

\* no call that waits for a reply was given the dict of call c
DictNotShared(c) ==
    \A d \in Calls \ {c} :
        ot[d].pc = "idle" \/ ot[d].timeout = 0 \/ ot[d].obj # ot[c].obj

C27_ReplyToIsOwn ==
    [][\A c \in Calls :
         (OtPublish(c) /\ ot[c].timeout # 0)
            => /\ StartsWithTmpPrefix(ot[c].otc)
               /\ msgobj[ot[c].obj] = <<"dict", ot[c].otc>>]_vars

\* a call that has been made and has not left onetime
Pending(c) == ot[c].pc \notin {"idle", "done", "raised"}

\* C28: every key of MQTT._responses is the reply topic of a onetime call
\* that has not yet returned: the inbound callback leaves no entry for a
\* topic that nobody waits on.
C28_RegistryHygiene ==
    \A t \in DOMAIN responses :
        \E c \in Calls : Pending(c) /\ ot[c].otc = t

\* C34: when the broker refuses the connection, the construction of the
\* session fails: no session object comes to exist, and the onetime call
\* that was building it leaves with the exception instead of going on to
\* publish or to wait.
C34_RefusedIsFatal ==
    ~brokerUp =>
        \A c \in Calls :
            /\ ~mqtt[c].exists
            /\ ot[c].pc \in {"idle", "open", "raised"}

---------------------------------------------------------------------------
(* Claims about the route dispatcher and the topic matcher, checked under   *)
(* ApiSpec                                                                  *)

ExecuteDone == apicall.op = "execute"

\* the handler that the last execute called, and with what
Resolved == apicall.calls[1].fn
PassedArgs == apicall.calls[1].args

SomeMatch == \E k \in 1..Len(routes) : MQTT_match(routes[k], apicall.route)

\* C12: execute dispatches a topic to the handler registered under a pattern
\* exactly when the topic matcher holds of that pattern and the topic.
C12_DispatchIsMatch ==
    ExecuteDone =>
        /\ Resolved # default_route => MQTT_match(Resolved, apicall.route)
        /\ SomeMatch => Resolved # default_route

\* C13: when the matcher holds of no registered pattern and the topic,
\* execute calls the default handler only and returns
\* (False, "Endpoint not found").
C13_DefaultRoute ==
    (ExecuteDone /\ ~SomeMatch) =>
        /\ Resolved = default_route
        /\ apicall.res = <<"tuple", PyFalse, <<"raw", "Endpoint not found">>>>

\* the values the wildcards of a pattern capture from a topic it matches,
\* from segment k on: a "+" the segment at its place, a closing "#" what is
\* left joined by "/"
RECURSIVE Captured(_, _, _)
Captured(pattern, topic, k) ==
    IF k > Len(pattern) THEN <<>>
    ELSE IF pattern[k] = "+"
    THEN <<Chars[topic[k]]>> \o Captured(pattern, topic, k + 1)
    ELSE IF pattern[k] = "#"
    THEN <<Str(SubSeq(topic, k, Len(topic)))>>
    ELSE Captured(pattern, topic, k + 1)

\* C14: when a registered pattern is the first that matches the topic, its
\* handler is called with the list of captured values: one segment per "+",
\* and the rest of the topic, empty or not, for a closing "#".
C14_RouteCapture ==
    ExecuteDone =>
        \A k \in 1..Len(routes) :
            (/\ MQTT_match(routes[k], apicall.route)
             /\ \A j \in 1..(k - 1) : ~MQTT_match(routes[j], apicall.route))
                => /\ Resolved = routes[k]
                   /\ PassedArgs = Captured(routes[k], apicall.route, 1)

\* the registered patterns that match the executed topic, by their place
Matching == {k \in 1..Len(routes) : MQTT_match(routes[k], apicall.route)}

\* C24: when several registered patterns match the executed topic, execute
\* calls the handler of the one registered first among them.
C24_FirstRegistered ==
    (ExecuteDone /\ Cardinality(Matching) > 1) =>
        \E k \in Matching :
            /\ \A j \in Matching : k <= j
            /\ Resolved = routes[k]

MatchDone == apicall.op = "match"

\* the walk as claimed: literals equal, "+" takes one segment, and both end
\* together or a closing "#" meets segments that remain
RECURSIVE ClaimedWalk(_, _, _)
ClaimedWalk(pattern, topic, i) ==
    \/ i = Len(pattern) /\ i = Len(topic)
    \/ /\ i + 1 = Len(pattern) /\ pattern[i + 1] = "#"
       /\ i < Len(topic)
    \/ /\ i < Len(pattern) /\ i < Len(topic)
       /\ pattern[i + 1] = topic[i + 1] \/ pattern[i + 1] = "+"
       /\ ClaimedWalk(pattern, topic, i + 1)

\* C15 as stated: match is true exactly when the claimed walk succeeds; a
\* topic exhausted before the pattern is a non-match.
C15_MatchAsClaimed ==
    MatchDone =>
        (apicall.res = PyTrue) <=> ClaimedWalk(apicall.pattern, apicall.route, 0)

\* the MQTT rule: the segments before a closing "#" (all of them without
\* one) are matched one to one by the topic's, a literal by an equal
\* segment and "+" by any; without a closing "#" the topic has no more
\* segments, with one it may have any number more, none included; and a
\* wildcard in first place matches no topic that starts with "$"
StandardMatch(pattern, topic) ==
    LET closing == pattern[Len(pattern)] = "#"
        n == IF closing THEN Len(pattern) - 1 ELSE Len(pattern)
    IN  /\ IF closing THEN Len(topic) >= n ELSE Len(topic) = n
        /\ \A k \in 1..n :
              \/ pattern[k] = topic[k]
              \/ pattern[k] = "+" /\ (k > 1 \/ ~StartsWithDollar(topic))
        /\ (closing /\ n = 0) => ~StartsWithDollar(topic)

\* C15: match(pattern, topic) is true exactly under the MQTT rule: as
\* claimed, except that a closing "#" also matches when no topic segment
\* remains (foo/# matches foo) and that a wildcard in first place does not
\* match a topic that starts with "$".
C15_MatchStandard ==
    MatchDone =>
        (apicall.res = PyTrue) <=> StandardMatch(apicall.pattern, apicall.route)

\* C15's case: a closing "#" with no segment left to take
C15_Witness ==
    /\ MatchDone
    /\ apicall.pattern = <<"a", "#">>
    /\ apicall.route = <<"a">>
    /\ apicall.res = PyTrue

===========================================================================
